---- MODULE Spec2Model ----
(***************************************************************************)
(* State-machine model of src/main.cpp (space-invaders): the frame loop   *)
(* of main() -- render pass, animation clock, projectile advance and      *)
(* collision, player movement, firing -- and the GLFW key callback.       *)
(*                                                                         *)
(* Units.  Time is counted in ticks of one animation frame_duration       *)
(* (0.5 s), so TicksPerSecond = 2 and every dt the model draws is a       *)
(* multiple of 0.5 s.  All positions the program computes from such dt    *)
(* are integers that a float holds exactly, so float rounding is absent   *)
(* from the modelled runs.  Arrays are 1-based here (index ai+1, bi+1).   *)
(*                                                                         *)
(* Specifications.  Spec is the whole loop with every key; SpecMove (the  *)
(* player walks) and SpecShoot (the player fires from under an alien      *)
(* column) are the loop under one kind of input each; SpecNoLoop is       *)
(* SpecMove with alien_animation->loop = false; SpecDraw and SpecOverlap  *)
(* run draw_sprite_buffer and sprite_overlap_check on their own.          *)
(***************************************************************************)
EXTENDS Integers, Sequences, FiniteSets, TLC

(* ------------------------------ bounds -------------------------------- *)
\* Scaled-down stand-ins for program quantities (the program's values are
\* named next to each); the geometry is otherwise the program's.
GAME_MAX_PROJECTILES == 2      \* main.cpp:56 has 128
NumAlienCols == 1              \* main.cpp:429 has 11 columns
NumAlienRows == 1              \* main.cpp:427 has 5 rows
AlienY0 == 44                  \* main.cpp:432 has 128
buffer_height == 52            \* main.cpp:174 has 256
MaxDt == 3                     \* largest frame time drawn, in ticks
DrawW == 2                     \* width of the buffer sprites are drawn into
DrawH == 2                     \* its height

(* ------------------------- program constants -------------------------- *)
buffer_width == 224
ALIEN_DEAD == 0
ALIEN_1 == 1
num_frames == 2
frame_duration == 1            \* 0.5f seconds = 1 tick
player_speed == 60             \* pixels per second
Margin == 10
AlienHp == 3
DeathFrames == 10
ProjectileDir == 2
PlayerY == 32
AlienX0 == 20
AlienDX == 16
AlienDY == 17

TicksPerSecond == 2 * frame_duration

alien_sprite == [width |-> 11, height |-> 8]
alien_sprite1 == [width |-> 11, height |-> 8]
alien_death_sprite == [width |-> 13, height |-> 7]
player_sprite == [width |-> 11, height |-> 7]
projectile_sprite == [width |-> 1, height |-> 3]

\* alien_animation->frames, index 0 and 1
frames == <<alien_sprite, alien_sprite1>>

PlayerX0 == 112 - 5

DtSet == 0..MaxDt

\* The animation clock is followed up to one whole period past its range
\* (frame indices 0, 1 and the first out-of-range index).
MaxTime == num_frames * frame_duration

MoveKeys == {"RIGHT", "LEFT"}
FireKeys == {"SPACE"}

VARIABLES
    game,             \* Game: aliens, player, projectiles (num_projectiles = Len)
    death_counters,   \* uint8_t per alien
    anim_time,        \* alien_animation->time, in ticks
    alien_animation,  \* its loop field; released: deleted, the pointer null
    player_move_dir,  \* the local of main that survives between iterations
    move_dir,         \* global written by key_callback
    fire_pressed,     \* global written by key_callback
    game_running,     \* global; FALSE also once the process has died
    held,             \* environment: which of LEFT, RIGHT are down
    fire_events,      \* observation: SPACE releases since the last iteration, capped
    hit_count,        \* observation: hits each alien has taken
    death_draws,      \* observation: frames each alien's death sprite was drawn in
    obs,              \* what the last loop iteration did (observation only)
    call              \* the last call of a function studied on its own

vars == <<game, death_counters, anim_time, alien_animation, player_move_dir,
          move_dir, fire_pressed, game_running, held, fire_events, hit_count,
          death_draws, obs, call>>

\* The state of the loop of main, which calls of single functions leave alone.
main_vars == <<game, death_counters, anim_time, alien_animation,
               player_move_dir, move_dir, fire_pressed, game_running, held,
               fire_events, hit_count, death_draws, obs>>

NoCall == [op |-> "none", in |-> <<>>, out |-> <<>>]

num_aliens == NumAlienCols * NumAlienRows

\* main.cpp:427-436; index yi*11+xi of the source is compacted to
\* yi*NumAlienCols+xi because only NumAlienCols columns exist here.
InitAlien(ai) ==
    LET xi == (ai - 1) % NumAlienCols
        yi == (ai - 1) \div NumAlienCols
    IN  [x |-> AlienDX * xi + AlienX0, y |-> AlienDY * yi + AlienY0,
         type |-> ALIEN_1, hp |-> AlienHp]

InitGame ==
    [aliens |-> [ai \in 1..num_aliens |-> InitAlien(ai)],
     player |-> [x |-> PlayerX0, y |-> PlayerY, life |-> 3],
     projectiles |-> <<>>]

NoObs ==
    [kind |-> "init", x0 |-> 0, delta |-> 0, branch |-> "still",
     events |-> 0, n0 |-> 0, hits |-> <<>>, by_hit |-> 0, by_bounds |-> 0,
     by_swap |-> 0, scan_idx |-> -1, drawn |-> {}, null_uses |-> {}]

Init ==
    /\ game = InitGame
    /\ death_counters = [ai \in 1..num_aliens |-> DeathFrames]
    /\ anim_time = 0
    /\ alien_animation = [loop |-> TRUE, released |-> FALSE]
    /\ player_move_dir = 1
    /\ move_dir = 0
    /\ fire_pressed = FALSE
    /\ game_running = TRUE
    /\ held = {}
    /\ fire_events = 0
    /\ hit_count = [ai \in 1..num_aliens |-> 0]
    /\ death_draws = [ai \in 1..num_aliens |-> 0]
    /\ obs = NoObs
    /\ call = NoCall

(* --------------------------- key_callback ----------------------------- *)
\* Variant of key_callback: a REPEAT of LEFT or RIGHT counts as a PRESS.
key_callback_RepeatCounts(key, action, run, md, fire) ==
    CASE key = "ESCAPE" -> <<IF action = "PRESS" THEN FALSE ELSE run, md, fire>>
      [] key = "RIGHT"  -> <<run,
                             IF action \in {"PRESS", "REPEAT"} THEN md + 1
                             ELSE IF action = "RELEASE" THEN md - 1 ELSE md,
                             fire>>
      [] key = "LEFT"   -> <<run,
                             IF action \in {"PRESS", "REPEAT"} THEN md - 1
                             ELSE IF action = "RELEASE" THEN md + 1 ELSE md,
                             fire>>
      [] key = "SPACE"  -> <<run, md, IF action = "RELEASE" THEN TRUE ELSE fire>>
      [] OTHER          -> <<run, md, fire>>

\* main.cpp:73-94.  Returns the new <<game_running, move_dir, fire_pressed>>.
key_callback(key, action, run, md, fire) ==
    CASE key = "ESCAPE" -> <<IF action = "PRESS" THEN FALSE ELSE run, md, fire>>
      [] key = "RIGHT"  -> <<run,
                             IF action = "PRESS" THEN md + 1
                             ELSE IF action = "RELEASE" THEN md - 1 ELSE md,
                             fire>>
      [] key = "LEFT"   -> <<run,
                             IF action = "PRESS" THEN md - 1
                             ELSE IF action = "RELEASE" THEN md + 1 ELSE md,
                             fire>>
      [] key = "SPACE"  -> <<run, md, IF action = "RELEASE" THEN TRUE ELSE fire>>
      [] OTHER          -> <<run, md, fire>>

\* One event delivered by glfwPollEvents (main.cpp:597) for a key of K.
\* GLFW reports PRESS for a key that was up and REPEAT or RELEASE for a key
\* that is down; that is tracked for LEFT and RIGHT.  For SPACE only the
\* RELEASE changes program state, so its PRESS is left implicit.  ESCAPE
\* ends the loop and is not among the keys the environment presses.
Allowed(key, action) ==
    IF key \in MoveKeys
    THEN IF action = "PRESS" THEN key \notin held ELSE key \in held
    ELSE action = "RELEASE"

KeyEvent(K) ==
    /\ game_running
    /\ \E key \in K, action \in {"PRESS", "REPEAT", "RELEASE"} :
          /\ Allowed(key, action)
          /\ held' = IF key \notin MoveKeys THEN held
                     ELSE CASE action = "PRESS"   -> held \cup {key}
                            [] action = "RELEASE" -> held \ {key}
                            [] OTHER              -> held
          /\ fire_events' = IF key = "SPACE" /\ fire_events < 2
                            THEN fire_events + 1 ELSE fire_events
          /\ LET r == key_callback(key, action, game_running, move_dir, fire_pressed)
             IN  /\ game_running' = r[1]
                 /\ move_dir' = r[2]
                 /\ fire_pressed' = r[3]
    /\ obs' = [NoObs EXCEPT !.kind = "key"]
    /\ UNCHANGED <<game, death_counters, anim_time, alien_animation,
                   player_move_dir, hit_count, death_draws, call>>

(* --------------------------- pure helpers ----------------------------- *)
\* Variant of sprite_overlap_check: boxes that touch count as overlapping.
sprite_overlap_check_Touching(sp_a, x_a, y_a, sp_b, x_b, y_b) ==
    /\ x_a <= x_b + sp_b.width
    /\ x_a + sp_a.width >= x_b
    /\ y_a <= y_b + sp_b.height
    /\ y_a + sp_a.height >= y_b

\* main.cpp:157-169
sprite_overlap_check(sp_a, x_a, y_a, sp_b, x_b, y_b) ==
    /\ x_a < x_b + sp_b.width
    /\ x_a + sp_a.width > x_b
    /\ y_a < y_b + sp_b.height
    /\ y_a + sp_a.height > y_b

\* (size_t)(time / frame_duration), main.cpp:479 and 542
RawFrame(time) == time \div frame_duration

\* main.cpp:480: the render pass clamps an out-of-range index to 0
RenderFrame(time) ==
    IF RawFrame(time) >= num_frames THEN 0 ELSE RawFrame(time)

\* main.cpp:542-543: the collision scan uses the index as computed
ScanFrame(time) == RawFrame(time)

\* Variant of AdvanceTime: the clock restarts at 0 when it wraps.
AdvanceTime_ResetToZero(time, dt) ==
    IF time + dt >= num_frames * frame_duration
    THEN 0
    ELSE time + dt

\* main.cpp:495-501 (loop = true): one subtraction of the total duration
AdvanceTime(time, dt) ==
    IF time + dt >= num_frames * frame_duration
    THEN time + dt - num_frames * frame_duration
    ELSE time + dt

\* main.cpp:502-507: a non-looping animation whose clock reaches the total
\* duration is deleted and the pointer set to null.
Finishes(anim, time, dt) ==
    ~anim.loop /\ time + dt >= num_frames * frame_duration

\* main.cpp:495-508: the clock after the advance, for either value of loop
NextTime(anim, time, dt) ==
    IF anim.loop THEN AdvanceTime(time, dt)
    ELSE IF Finishes(anim, time, dt) THEN 0 ELSE time + dt

\* The places of one iteration that go through alien_animation while it
\* is null: the render pass for a live alien (main.cpp:479-481) and the
\* clock advance (495-496) when it was null at the start, the collision
\* scan (541-543) when it is null by then.
NullUses(null_at_start, null_at_scan, renders_live, scans) ==
    (IF null_at_start /\ renders_live THEN {"render"} ELSE {})
    \cup (IF null_at_start THEN {"advance"} ELSE {})
    \cup (IF null_at_scan /\ scans THEN {"scan"} ELSE {})

\* Going through the null pointer is undefined: the process dies, or the
\* reads and writes land on the stale object and the iteration goes on.
NullOutcomes(uses) == IF uses = {} THEN {"none"} ELSE {"crash", "stale"}

\* What *animation.frames[current_frame] can yield when current_frame is
\* outside the two-element frames array (main.cpp:404, 543): the read is
\* undefined; the process dies or some width/height comes back.  Widths
\* stay at most alien_death_sprite.width so that the size_t subtraction of
\* main.cpp:553 does not wrap in the modelled outcomes.
OOBOutcomes ==
    { [crash |-> TRUE,  width |-> 0,  height |-> 0],
      [crash |-> FALSE, width |-> 0,  height |-> 0],
      [crash |-> FALSE, width |-> 13, height |-> 40] }

\* The outcomes to draw from for index idx: one (unused) when in range.
ScanOutcomes(idx) ==
    IF idx < num_frames THEN {[crash |-> FALSE, width |-> 0, height |-> 0]}
    ELSE OOBOutcomes

ScanSprite(idx, g) ==
    IF idx < num_frames THEN frames[idx + 1] ELSE g

(* ---------------------------- render pass ----------------------------- *)
\* Variant of RenderKind: no test of the counter against zero.
RenderKind_NoZeroSkip(alien, counter) ==
    IF alien.type = ALIEN_DEAD THEN "dead" ELSE "live"

\* main.cpp:467-484, per alien: "skip", "dead" (death sprite drawn and the
\* counter decremented) or "live" (animation frame drawn).
RenderKind(alien, counter) ==
    IF counter = 0 THEN "skip"
    ELSE IF alien.type = ALIEN_DEAD /\ counter # 0 THEN "dead"
    ELSE "live"

RenderCounters(aliens, counters) ==
    [ai \in 1..num_aliens |->
        IF RenderKind(aliens[ai], counters[ai]) = "dead"
        THEN (counters[ai] - 1) % 256 ELSE counters[ai]]

(* ----------------------- projectile loop (524-569) -------------------- *)
Min(S) == CHOOSE m \in S : \A n \in S : m <= n

\* Variant of SwapRemove: the count shrinks, the last is not copied to bi.
SwapRemove_DropLast(projs, bi) == SubSeq(projs, 1, Len(projs) - 1)

\* main.cpp:530-531 and 560-561: overwrite slot bi with the last, shrink
SwapRemove(projs, bi) ==
    [i \in 1..(Len(projs) - 1) |-> IF i = bi THEN projs[Len(projs)] ELSE projs[i]]

\* Variant of OutOfBounds: no test against the buffer's height.
OutOfBounds_NoTop(p) == p.y < projectile_sprite.height

\* main.cpp:527-528
OutOfBounds(p) == p.y >= buffer_height \/ p.y < projectile_sprite.height

\* Variant of FirstHit: DEAD aliens are not skipped.
FirstHit_DeadIncluded(p, aliens, spr) ==
    LET S == { ai \in 1..num_aliens :
                 sprite_overlap_check(projectile_sprite, p.x, p.y,
                                      spr, aliens[ai].x, aliens[ai].y) }
    IN  IF S = {} THEN 0 ELSE Min(S)

\* main.cpp:536-547: index of the first alien in array order that is not
\* DEAD and whose box overlaps the projectile; 0 when the scan finds none.
FirstHit(p, aliens, spr) ==
    LET S == { ai \in 1..num_aliens :
                 /\ aliens[ai].type # ALIEN_DEAD
                 /\ sprite_overlap_check(projectile_sprite, p.x, p.y,
                                         spr, aliens[ai].x, aliens[ai].y) }
    IN  IF S = {} THEN 0 ELSE Min(S)

\* Variant of HitAlien: death threshold hp <= 2.
HitAlien_DiesAtTwo(a, spr) ==
    IF a.hp <= 2
    THEN [a EXCEPT !.type = ALIEN_DEAD,
                   !.x = @ - ((alien_death_sprite.width - spr.width) \div 2)]
    ELSE [a EXCEPT !.hp = @ - 1]

\* main.cpp:550-558
HitAlien(a, spr) ==
    IF a.hp <= 1
    THEN [a EXCEPT !.type = ALIEN_DEAD,
                   !.x = @ - ((alien_death_sprite.width - spr.width) \div 2)]
    ELSE [a EXCEPT !.hp = @ - 1]

\* Variant of ConsumeProjectile: removal only inside the death branch.
ConsumeProjectile_OnlyIfDied(projs, bi, died) ==
    IF died THEN SwapRemove(projs, bi) ELSE projs

\* main.cpp:560-561: after the if/else on hp, whether the alien died or not
ConsumeProjectile(projs, bi, died) == SwapRemove(projs, bi)

\* main.cpp:568: the index moves on after the alien scan, also when the
\* scan removed projectile bi and put the last one into its slot.
NextIndexAfterScan(bi, removed) == bi + 1

\* Variant of NextIndexAfterBounds: the index moves on after a removal.
NextIndexAfterBounds_Increment(bi) == bi + 1

\* main.cpp:532: `continue` skips the ++bi of line 568, so the projectile
\* that the removal put into slot bi is the next one handled.
NextIndexAfterBounds(bi) == bi

\* by_swap counts the bounds removals that moved another projectile into
\* the freed slot (the removed one was not the last).
LoopStart(projs, aliens) ==
    [bi |-> 1, projs |-> projs, aliens |-> aliens, hits |-> <<>>,
     by_hit |-> 0, by_bounds |-> 0, by_swap |-> 0, scanned |-> FALSE]

RECURSIVE ProjectileLoop(_, _)
ProjectileLoop(st, spr) ==
    IF st.bi > Len(st.projs) THEN st
    ELSE
      LET p == [st.projs[st.bi] EXCEPT !.y = @ + st.projs[st.bi].dir]
      IN  IF OutOfBounds(p)
          THEN ProjectileLoop(
                 [st EXCEPT !.projs = SwapRemove(st.projs, st.bi),
                            !.by_bounds = @ + 1,
                            !.by_swap = IF st.bi < Len(st.projs)
                                        THEN @ + 1 ELSE @,
                            !.bi = NextIndexAfterBounds(st.bi)], spr)
          ELSE
            LET moved == [st.projs EXCEPT ![st.bi] = p]
                live  == \E ai \in 1..num_aliens : st.aliens[ai].type # ALIEN_DEAD
                ai    == FirstHit(p, st.aliens, spr)
            IN  IF ai = 0
                THEN ProjectileLoop(
                       [st EXCEPT !.projs = moved,
                                  !.scanned = @ \/ live,
                                  !.bi = NextIndexAfterScan(st.bi, FALSE)], spr)
                ELSE ProjectileLoop(
                       [st EXCEPT !.projs = ConsumeProjectile(moved, st.bi,
                                                                st.aliens[ai].hp <= 1),
                                  !.aliens[ai] = HitAlien(@, spr),
                                  !.hits = Append(@, [ai |-> ai, x |-> p.x, y |-> p.y]),
                                  !.by_hit = @ + 1,
                                  !.scanned = TRUE,
                                  !.bi = NextIndexAfterScan(st.bi, TRUE)], spr)

(* ------------------------ player movement (571-586) ------------------- *)
\* player_move_dir * player_speed * dt, with dt in ticks
Delta(pmd, dt) == (pmd * player_speed * dt) \div TicksPerSecond

\* Variant of RightClampX: the margin is not subtracted.
RightClampX_NoMargin(pmd, dt) == buffer_width - player_sprite.width - pmd

\* x written by the right-margin branch, main.cpp:577
RightClampX(pmd, dt) == buffer_width - player_sprite.width - pmd - Margin

\* Returns the new player.x and the value player_move_dir ends with.
MovePlayer(x, md, dt) ==
    LET pmd == 2 * md
    IN  IF pmd = 0 THEN [x |-> x, pmd |-> pmd, branch |-> "still"]
        ELSE IF x + player_sprite.width + Delta(pmd, dt) >= buffer_width - Margin
        THEN [x |-> RightClampX(pmd, dt), pmd |-> -pmd, branch |-> "right"]
        ELSE IF x + Delta(pmd, dt) <= Margin
        THEN [x |-> Margin, pmd |-> -pmd, branch |-> "left"]
        ELSE [x |-> x + Delta(pmd, dt), pmd |-> pmd, branch |-> "free"]

(* ----------------------------- firing (588-595) ----------------------- *)
\* Variant of CanFire: the capacity test left out.
CanFire_NoCapacityCheck(fire, n) == fire

\* main.cpp:588
CanFire(fire, n) == fire /\ n < GAME_MAX_PROJECTILES

\* Variant of FireAfter: the flag cleared only inside the spawn branch.
FireAfter_OnlyWhenShot(fire, shot) == fire /\ ~shot

\* main.cpp:595: fire_pressed after the firing step
FireAfter(fire, shot) == FALSE

\* y0 and age are not program state: the y the projectile was spawned at
\* and the number of loop iterations it has been active through.
Spawn(projs, player) ==
    Append(projs, [x |-> player.x + player_sprite.width \div 2,
                   y |-> player.y + player_sprite.height,
                   dir |-> ProjectileDir,
                   y0 |-> player.y + player_sprite.height,
                   age |-> 0])

Older(projs) == [i \in 1..Len(projs) |-> [projs[i] EXCEPT !.age = @ + 1]]

(* ------------------------- one loop iteration ------------------------- *)
\* main.cpp:456-598 up to, not including, the events glfwPollEvents
\* delivers: render pass, animation clock, projectile loop, player
\* movement, firing, fire_pressed = false.
Frame ==
    /\ game_running
    /\ UNCHANGED call
    \* The clock grows without limit while dt stays above the total
    \* duration (one subtraction per iteration); the runs explored keep
    \* it at most MaxTime.
    /\ \E dt \in { d \in DtSet :
                       NextTime(alien_animation, anim_time, d) <= MaxTime } :
       \E g \in ScanOutcomes(ScanFrame(NextTime(alien_animation, anim_time, dt))) :
        LET t1    == NextTime(alien_animation, anim_time, dt)
            rel   == \/ alien_animation.released
                     \/ Finishes(alien_animation, anim_time, dt)
            idx   == ScanFrame(t1)
            lp    == ProjectileLoop(LoopStart(game.projectiles, game.aliens),
                                    ScanSprite(idx, g))
            oob   == lp.scanned /\ idx >= num_frames
            mv    == MovePlayer(game.player.x, move_dir, dt)
            pl    == [game.player EXCEPT !.x = mv.x]
            shoot == CanFire(fire_pressed, Len(lp.projs))
            projs == IF shoot THEN Spawn(Older(lp.projs), pl)
                     ELSE Older(lp.projs)
            \* alien_animation is null from its release on, never before
            uses  == IF ~rel THEN {}
                     ELSE NullUses(
                            alien_animation.released, rel,
                            \E ai \in 1..num_aliens :
                                RenderKind(game.aliens[ai], death_counters[ai])
                                    = "live",
                            lp.scanned)
            o     == [kind |-> "frame", x0 |-> game.player.x,
                      delta |-> Delta(2 * move_dir, dt),
                      branch |-> mv.branch, events |-> fire_events,
                      n0 |-> Len(lp.projs),
                      hits |-> lp.hits, by_hit |-> lp.by_hit,
                      by_bounds |-> lp.by_bounds,
                      by_swap |-> lp.by_swap,
                      scan_idx |-> IF lp.scanned THEN idx ELSE -1,
                      drawn |-> { ai \in 1..num_aliens :
                                    RenderKind(game.aliens[ai], death_counters[ai])
                                        # "skip" },
                      null_uses |-> uses]
        IN  \E u \in NullOutcomes(uses) :
            IF (oob /\ g.crash) \/ u = "crash"
            THEN /\ game_running' = FALSE
                 /\ obs' = [o EXCEPT !.kind = "crash"]
                 /\ UNCHANGED <<game, death_counters, anim_time, alien_animation,
                                player_move_dir, move_dir, fire_pressed, held,
                                fire_events, hit_count, death_draws>>
            ELSE /\ alien_animation' = [alien_animation EXCEPT !.released = rel]
                 /\ game' = [aliens |-> lp.aliens, player |-> pl,
                             projectiles |-> projs]
                 /\ death_counters' = RenderCounters(game.aliens, death_counters)
                 /\ anim_time' = t1
                 /\ player_move_dir' = mv.pmd
                 /\ fire_pressed' = FireAfter(fire_pressed, shoot)
                 /\ fire_events' = 0
                 /\ hit_count' = [ai \in 1..num_aliens |->
                        hit_count[ai] + Cardinality({ k \in 1..Len(lp.hits) :
                                                        lp.hits[k].ai = ai })]
                 /\ death_draws' = [ai \in 1..num_aliens |->
                        IF RenderKind(game.aliens[ai], death_counters[ai]) = "dead"
                        THEN death_draws[ai] + 1 ELSE death_draws[ai]]
                 /\ obs' = o
                 /\ UNCHANGED <<move_dir, game_running, held>>

(* --------------------------- specifications --------------------------- *)
\* The whole program: every key, every dt.
Next == KeyEvent(MoveKeys \cup FireKeys) \/ Frame

Spec == Init /\ [][Next]_vars

\* The player walks and nothing is fired.
NextMove == KeyEvent(MoveKeys) \/ Frame

SpecMove == Init /\ [][NextMove]_vars

\* The player stands and fires.  It stands under alien column 0 (where the
\* program puts it, its shots pass between columns 5 and 6 and hit
\* nothing), at the x it has after the right-margin clamp
\* and three further iterations of dt = 0.5 s with LEFT down (SpecMove
\* reaches that state with the animation clock at 0, see ReachAlignedX).
AlignedX == RightClampX(2, 1) + 3 * Delta(-2, 1)

InitShoot ==
    /\ game = [InitGame EXCEPT !.player.x = AlignedX]
    /\ death_counters = [ai \in 1..num_aliens |-> DeathFrames]
    /\ anim_time = 0
    /\ alien_animation = [loop |-> TRUE, released |-> FALSE]
    /\ player_move_dir = 0
    /\ move_dir = 0
    /\ fire_pressed = FALSE
    /\ game_running = TRUE
    /\ held = {}
    /\ fire_events = 0
    /\ hit_count = [ai \in 1..num_aliens |-> 0]
    /\ death_draws = [ai \in 1..num_aliens |-> 0]
    /\ obs = NoObs
    /\ call = NoCall

NextShoot == KeyEvent(FireKeys) \/ Frame

SpecShoot == InitShoot /\ [][NextShoot]_vars

(* ------------------- draw_sprite_buffer on its own ------------------- *)
\* Colours: 0 stands for the clear colour, 1 for a sprite colour.
Colors == {0, 1}

\* Sprites as (width, height, data), data row-major from the top row as in
\* main.cpp:329-395, cut down to at most 2 x 2 cells.
DrawSprites ==
    { [width |-> 1, height |-> 1, data |-> <<1>>],
      [width |-> 2, height |-> 1, data |-> <<1, 1>>],
      [width |-> 2, height |-> 2, data |-> <<1, 0,
                                             1, 1>>] }

\* Positions: inside the buffer, partly outside, and wholly outside.  All
\* are far below the range of size_t, like every position main passes.
DrawXs == 0..DrawW
DrawYs == 0..DrawH

\* main.cpp:101-107; data[i] is data[i - 1] of the source
buffer_clear(buffer, color) ==
    [buffer EXCEPT !.data = [i \in 1..(buffer.width * buffer.height) |-> color]]

ClearedBuffer ==
    buffer_clear([width |-> DrawW, height |-> DrawH,
                  data |-> [i \in 1..(DrawW * DrawH) |-> 1]], 0)

\* Variant of InsideBuffer: the column is not tested.
InsideBuffer_RowOnly(buffer, sx, sy) == sy < buffer.height

\* main.cpp:149
InsideBuffer(buffer, sx, sy) == sy < buffer.height /\ sx < buffer.width

\* main.cpp:146-152: the body of the two loops for one (xi, yi)
DrawCell(buffer, sprite, x, y, color, xi, yi) ==
    LET sy == sprite.height - 1 + y - yi
        sx == x + xi
    IN  IF sprite.data[yi * sprite.width + xi + 1] # 0
           /\ InsideBuffer(buffer, sx, sy)
        THEN [buffer EXCEPT !.data[sy * buffer.width + sx + 1] = color]
        ELSE buffer

\* main.cpp:142-154: xi outer, yi inner; k counts the cells handled so far
RECURSIVE DrawLoop(_, _, _, _, _, _)
DrawLoop(buffer, sprite, x, y, color, k) ==
    IF k >= sprite.width * sprite.height THEN buffer
    ELSE DrawLoop(DrawCell(buffer, sprite, x, y, color,
                           k \div sprite.height, k % sprite.height),
                  sprite, x, y, color, k + 1)

\* main.cpp:139-155
draw_sprite_buffer(buffer, sprite, x, y, color) ==
    DrawLoop(buffer, sprite, x, y, color, 0)

\* A buffer is cleared, then sprites are drawn into it one after another
\* (main.cpp:465-493).
InitDraw == Init

ClearBuffer ==
    /\ call' = [op |-> "clear", in |-> <<>>, out |-> ClearedBuffer]
    /\ UNCHANGED main_vars

DrawSprite ==
    /\ call.op \in {"clear", "draw"}
    /\ \E sprite \in DrawSprites, x \in DrawXs, y \in DrawYs, color \in Colors :
          call' = [op |-> "draw",
                   in |-> [before |-> call.out, sprite |-> sprite,
                           x |-> x, y |-> y, color |-> color],
                   out |-> draw_sprite_buffer(call.out, sprite, x, y, color)]
    /\ UNCHANGED main_vars

NextDraw == ClearBuffer \/ DrawSprite

SpecDraw == InitDraw /\ [][NextDraw]_vars

(* ------------------ sprite_overlap_check on its own ------------------- *)
\* The sprite with every mask cell transparent.
Blank(sprite) ==
    [sprite EXCEPT !.data = [i \in 1..Len(sprite.data) |-> 0]]

\* One call with sprites and positions as given, one with the two
\* arguments swapped, one with both masks emptied.
OverlapCall ==
    /\ call.op = "none"
    /\ \E sp_a \in DrawSprites, sp_b \in DrawSprites,
          x_a \in DrawXs, y_a \in DrawYs, x_b \in DrawXs, y_b \in DrawYs :
          call' = [op |-> "overlap",
                   in |-> [sp_a |-> sp_a, x_a |-> x_a, y_a |-> y_a,
                           sp_b |-> sp_b, x_b |-> x_b, y_b |-> y_b],
                   out |-> [ab    |-> sprite_overlap_check(sp_a, x_a, y_a,
                                                           sp_b, x_b, y_b),
                            ba    |-> sprite_overlap_check(sp_b, x_b, y_b,
                                                           sp_a, x_a, y_a),
                            blank |-> sprite_overlap_check(
                                          Blank(sp_a), x_a, y_a,
                                          Blank(sp_b), x_b, y_b)]]
    /\ UNCHANGED main_vars

SpecOverlap == Init /\ [][OverlapCall]_vars

\* The animation configured with loop = false (main.cpp:399 sets true;
\* lines 502-507 are the code for false); the player walks.
InitNoLoop ==
    /\ game = InitGame
    /\ death_counters = [ai \in 1..num_aliens |-> DeathFrames]
    /\ anim_time = 0
    /\ alien_animation = [loop |-> FALSE, released |-> FALSE]
    /\ player_move_dir = 1
    /\ move_dir = 0
    /\ fire_pressed = FALSE
    /\ game_running = TRUE
    /\ held = {}
    /\ fire_events = 0
    /\ hit_count = [ai \in 1..num_aliens |-> 0]
    /\ death_draws = [ai \in 1..num_aliens |-> 0]
    /\ obs = NoObs
    /\ call = NoCall

SpecNoLoop == InitNoLoop /\ [][NextMove]_vars

ReachAlignedX ==
    /\ game.player.x = AlignedX
    /\ game.projectiles = <<>>
    /\ game.aliens = InitGame.aliens
    /\ anim_time = 0
    /\ move_dir = 0
    /\ player_move_dir = 0
    /\ ~fire_pressed

(* ---------------------------- properties ----------------------------- *)
IsFrame == obs.kind = "frame"

Live(a) == a.type # ALIEN_DEAD

NumProjectiles == Len(game.projectiles)

\* C1: every projectile that stays active through a loop iteration has its
\* y increased by dir once in it, so an active projectile that has been
\* through k iterations since its spawn at y0 is at y0 + 2k.
C1_AdvancedOncePerStep ==
    \A i \in 1..NumProjectiles :
        game.projectiles[i].y =
            game.projectiles[i].y0 + ProjectileDir * game.projectiles[i].age

\* C2: every frame index used to pick a sprite lies in [0, num_frames): the
\* index the render pass uses for the current clock, and the index the last
\* collision scan read frames[] with (scan_idx is -1 when it read nothing).
C2_FrameIndexInRange ==
    /\ RenderFrame(anim_time) \in 0..(num_frames - 1)
    /\ obs.scan_idx # -1 => obs.scan_idx \in 0..(num_frames - 1)

\* C3: when an iteration starts with the player at x = 10, LEFT held
\* (move_dir = -1) and dt > 0, the player is at x = 10 after it with its
\* direction flipped, and the next iteration with move_dir still -1 and
\* dt > 0 moves it to the right of x = 10.
C3_LeftBounceMovesRight ==
    [][ ( /\ IsFrame /\ obs.x0 = Margin /\ obs.delta < 0
          /\ move_dir = -1
          /\ obs'.kind = "frame" /\ obs'.delta < 0 )
        => ( /\ game.player.x = Margin
             /\ player_move_dir = 2
             /\ game'.player.x > Margin ) ]_vars

\* C4: when the right-margin branch of the player movement is taken, the
\* new x is width - sprite.width - delta - 10 with
\* delta = 2 * move_dir * player_speed * dt, for every dt.
C4_RightClampUsesDelta ==
    (IsFrame /\ obs.branch = "right")
        => game.player.x = buffer_width - player_sprite.width - obs.delta - Margin

Fresh(projs) == { i \in 1..Len(projs) : projs[i].age = 0 }

\* C5: the active-projectile count never exceeds GAME_MAX_PROJECTILES (no
\* slot past the capacity is written), and a fire attempt made while the
\* count equals the capacity leaves the collection as the projectile loop
\* left it: same count, no new projectile.
C5_CapacityEnforced ==
    /\ NumProjectiles <= GAME_MAX_PROJECTILES
    /\ (IsFrame /\ obs.events > 0 /\ obs.n0 = GAME_MAX_PROJECTILES)
          => (NumProjectiles = obs.n0 /\ Fresh(game.projectiles) = {})

C5_FireAtCapacity ==
    IsFrame /\ obs.events > 0 /\ obs.n0 = GAME_MAX_PROJECTILES

\* C6: at the end of every loop iteration fire_pressed is false, spawned or
\* not, and at most one projectile was spawned in it however many fire
\* events came in before it.
C6_FireConsumedOnce ==
    IsFrame => (~fire_pressed /\ Cardinality(Fresh(game.projectiles)) <= 1)

C6_TwoEventsNoSpawn ==
    /\ IsFrame /\ obs.events = 2 /\ ~fire_pressed
    /\ obs.n0 = GAME_MAX_PROJECTILES /\ Fresh(game.projectiles) = {}

\* C7: an alien created with hp = 3 is still ALIEN_1 after its first and
\* its second hit, it is DEAD from its third hit on, and in the state in
\* which it has just become DEAD its death countdown is still 10.
C7_ThreeHitsToDie ==
    [][ \A ai \in 1..num_aliens :
          /\ hit_count'[ai] < 3 => game'.aliens[ai].type = ALIEN_1
          /\ hit_count'[ai] >= 3 => game'.aliens[ai].type = ALIEN_DEAD
          /\ (Live(game.aliens[ai]) /\ ~Live(game'.aliens[ai]))
                => (hit_count'[ai] = 3 /\ death_counters'[ai] = 10) ]_vars

C7_JustDied ==
    \E ai \in 1..num_aliens :
        /\ IsFrame /\ ~Live(game.aliens[ai])
        /\ hit_count[ai] = 3 /\ death_counters[ai] = 10

\* C8: in every loop iteration a DEAD alien with a non-zero countdown is
\* drawn and its countdown goes down by exactly 1; the countdown of a DEAD
\* alien plus the number of frames its death sprite was drawn in is 10, so
\* it is 0 after exactly 10 such frames; it never leaves 0..10; an alien
\* whose countdown is 0 is not drawn and keeps 0; a live alien keeps 10.
C8_DeathCountdown ==
    [][ \A ai \in 1..num_aliens :
          IF obs'.kind = "frame"
          THEN /\ death_counters'[ai] \in 0..10
               /\ (~Live(game.aliens[ai]) /\ death_counters[ai] > 0)
                     => /\ ai \in obs'.drawn
                        /\ death_counters'[ai] = death_counters[ai] - 1
                        /\ death_draws'[ai] = death_draws[ai] + 1
               /\ death_counters[ai] = 0
                     => (death_counters'[ai] = 0 /\ ai \notin obs'.drawn)
               /\ Live(game.aliens[ai])
                     => (death_counters'[ai] = 10 /\ death_draws'[ai] = 0)
               /\ ~Live(game'.aliens[ai])
                     => death_draws'[ai] + death_counters'[ai] = 10
          ELSE death_counters'[ai] = death_counters[ai] ]_vars

C8_HiddenAfterTenFrames ==
    \E ai \in 1..num_aliens :
        /\ IsFrame /\ ~Live(game.aliens[ai])
        /\ death_counters[ai] = 0 /\ death_draws[ai] = 10
        /\ ai \notin obs.drawn

\* C9: once an alien is DEAD no step changes its type, hp or position, and
\* no hit of any later iteration is a hit on it.
C9_DeadIsInert ==
    [][ \A ai \in 1..num_aliens :
          ~Live(game.aliens[ai])
            => /\ game'.aliens[ai] = game.aliens[ai]
               /\ hit_count'[ai] = hit_count[ai]
               /\ \A k \in 1..Len(obs'.hits) : obs'.hits[k].ai # ai ]_vars

\* An active projectile inside the box of a DEAD alien that is still shown.
C9_ShotInsideDeadAlien ==
    \E ai \in 1..num_aliens, i \in 1..NumProjectiles :
        /\ IsFrame /\ ~Live(game.aliens[ai]) /\ death_counters[ai] > 0
        /\ sprite_overlap_check(projectile_sprite,
                                game.projectiles[i].x, game.projectiles[i].y,
                                alien_sprite,
                                game.aliens[ai].x, game.aliens[ai].y)

RECURSIVE SumSeq(_)
SumSeq(q) == IF q = <<>> THEN 0 ELSE Head(q) + SumSeq(Tail(q))

Advanced(p) == [p EXCEPT !.y = @ + p.dir, !.age = @ + 1]

InRange(p) == p.y >= projectile_sprite.height /\ p.y < buffer_height

Occurrences(projs, r) == Cardinality({ i \in 1..Len(projs) : projs[i] = r })

\* C11: after every loop iteration every active projectile, a new one
\* included, has projectile_sprite.height <= y < buffer_height; and in an
\* iteration without collisions the projectiles left are exactly the old
\* ones advanced once whose new y is in that range: one that leaves the
\* range is removed in that iteration, and the one moved into its slot is
\* advanced and range-checked like the others.
C11_RemovedWhenOutOfRange ==
    [][ obs'.kind = "frame" =>
          /\ \A i \in 1..Len(game'.projectiles) : InRange(game'.projectiles[i])
          /\ obs'.by_hit = 0 =>
                /\ \A i \in 1..Len(game.projectiles) :
                      LET r == Advanced(game.projectiles[i])
                      IN  Occurrences(game'.projectiles, r)
                            = IF InRange(r)
                              THEN Cardinality({ j \in 1..Len(game.projectiles) :
                                       Advanced(game.projectiles[j]) = r })
                              ELSE 0
                /\ Len(game'.projectiles)
                      - Cardinality(Fresh(game'.projectiles))
                      = Len(game.projectiles) - obs'.by_bounds ]_vars

\* A projectile left the range from a slot that was not the last, and the
\* one moved into that slot is still active afterwards.
C11_SwappedInSurvives ==
    /\ IsFrame /\ obs.by_swap > 0 /\ obs.by_hit = 0
    /\ \E i \in 1..NumProjectiles : game.projectiles[i].age > 0

\* The cell (cx, cy) of a buffer, cx a column and cy a row counted from 0.
Cell(buffer, cx, cy) == buffer.data[cy * buffer.width + cx + 1]

\* (cx, cy) is where an opaque mask cell (col, row) of the sprite lands.
Covered(sprite, x, y, cx, cy) ==
    \E col \in 0..(sprite.width - 1), row \in 0..(sprite.height - 1) :
        /\ sprite.data[row * sprite.width + col + 1] # 0
        /\ cx = x + col
        /\ cy = y + sprite.height - 1 - row

\* C12: after draw_sprite_buffer(sprite, x, y, color) the buffer has its
\* size and each cell (cx, cy) of it holds color if some opaque mask cell
\* (col, row) lands on it, (cx, cy) = (x + col, y + height - 1 - row), and
\* its value of before the call otherwise; cells of the sprite that land
\* outside the buffer change nothing (no cell of another row).
C12_DrawClips ==
    call.op = "draw" =>
        /\ call.out.width = DrawW /\ call.out.height = DrawH
        /\ Len(call.out.data) = DrawW * DrawH
        /\ \A cx \in 0..(DrawW - 1), cy \in 0..(DrawH - 1) :
              Cell(call.out, cx, cy) =
                  IF Covered(call.in.sprite, call.in.x, call.in.y, cx, cy)
                  THEN call.in.color
                  ELSE Cell(call.in.before, cx, cy)

\* A sprite drawn across the right edge: its left column is drawn, its
\* right column is lost, and the first cell of the row above, which
\* the lost cell would wrap into, keeps a value that is not the colour.
C12_ClippedAtRightEdge ==
    /\ call.op = "draw"
    /\ call.in.sprite.width = 2 /\ call.in.sprite.height = 1
    /\ call.in.x = DrawW - 1 /\ call.in.y = 0
    /\ Cell(call.out, DrawW - 1, 0) = call.in.color
    /\ Cell(call.in.before, 0, 1) # call.in.color
    /\ Cell(call.out, 0, 1) # call.in.color

\* The cells of the box [x, x + width) x [y, y + height) of a sprite at (x, y).
Box(sprite, x, y) ==
    (x..(x + sprite.width - 1)) \X (y..(y + sprite.height - 1))

\* C13: sprite_overlap_check(A, xA, yA, B, xB, yB) is true exactly when
\* the boxes of A at (xA, yA) and of B at (xB, yB) share a cell (boxes
\* that only touch share none), whatever the masks hold, and the call with
\* the two arguments swapped gives the same result.
C13_OverlapIsBoxIntersection ==
    call.op = "overlap" =>
        /\ call.out.ab
              = (Box(call.in.sp_a, call.in.x_a, call.in.y_a)
                   \cap Box(call.in.sp_b, call.in.x_b, call.in.y_b) # {})
        /\ call.out.ba = call.out.ab
        /\ call.out.blank = call.out.ab

\* Two boxes that touch along an edge, reported as not overlapping.
C13_TouchingEdge ==
    /\ call.op = "overlap"
    /\ call.in.x_a + call.in.sp_a.width = call.in.x_b
    /\ call.in.y_a = call.in.y_b
    /\ call.in.sp_a.height = call.in.sp_b.height
    /\ ~call.out.ab /\ ~call.out.ba

\* The length of the whole animation, num_frames * frame_duration.
TotalDuration == num_frames * frame_duration

Fields(p) == [x |-> p.x, y |-> p.y, dir |-> p.dir]

\* How many of the projectiles with index in I have the fields f.
CountFields(projs, I, f) == Cardinality({ i \in I : Fields(projs[i]) = f })

\* C15: an iteration that removes projectiles for leaving the range (and
\* has no collision) leaves every alien's hp, type and position and the
\* player as they were, changes a death countdown only by the render
\* pass's decrement for a DEAD alien, and keeps every other projectile:
\* those whose advanced y is in range are all there afterwards with the
\* same x and dir, in some order, next to at most the one just fired.
C15_BoundsRemovalTouchesNothingElse ==
    [][ (obs'.kind = "frame" /\ obs'.by_bounds > 0 /\ obs'.by_hit = 0) =>
          /\ game'.aliens = game.aliens
          /\ game'.player = game.player
          /\ \A ai \in 1..num_aliens :
                death_counters'[ai] =
                    IF ~Live(game.aliens[ai]) /\ death_counters[ai] > 0
                    THEN death_counters[ai] - 1 ELSE death_counters[ai]
          /\ \A i \in 1..Len(game.projectiles) :
                LET old == Fields(game.projectiles[i])
                    f   == [old EXCEPT !.y = @ + old.dir]
                IN  InRange(f) =>
                      CountFields(game'.projectiles,
                                  1..Len(game'.projectiles)
                                     \ Fresh(game'.projectiles), f)
                        = CountFields(game.projectiles,
                                      1..Len(game.projectiles), old) ]_vars

\* A removal for leaving the range, with a DEAD alien still counting down
\* and another projectile kept.
C15_RemovedBesideDeadAlien ==
    /\ IsFrame /\ obs.by_bounds > 0 /\ obs.by_hit = 0
    /\ \E ai \in 1..num_aliens :
          ~Live(game.aliens[ai]) /\ death_counters[ai] \in 1..9
    /\ \E i \in 1..NumProjectiles : game.projectiles[i].age > 0

Held(key) == IF key \in held THEN 1 ELSE 0

\* C17: with LEFT and RIGHT each pressed and released in turn (repeats in
\* between), move_dir is always -1, 0 or 1 and equals
\* (1 if RIGHT is down, else 0) - (1 if LEFT is down, else 0).
C17_MoveDirIsHeldDifference ==
    /\ move_dir \in {-1, 0, 1}
    /\ move_dir = Held("RIGHT") - Held("LEFT")

\* Both keys down after a key event, an iteration having run with one down.
C17_BothHeld ==
    /\ held = {"LEFT", "RIGHT"} /\ move_dir = 0 /\ obs.kind = "key"
    /\ game.player.x # PlayerX0

HeldBack(p) == p.age - (p.y - p.y0) \div ProjectileDir

TotalHits == SumSeq([ai \in 1..num_aliens |-> hit_count[ai]])

\* The most iterations a projectile spawned at the player can be advanced
\* in and still be inside the buffer.
MaxFlight == (buffer_height - 1 - (PlayerY + player_sprite.height)) \div ProjectileDir

\* C19: no projectile stays active for ever while iterations go on.  Each
\* iteration a projectile is active through either advances it or is one
\* in which an earlier slot's projectile hit an alien; the hits of a run
\* number at most AlienHp per alien; so a projectile is active through at
\* most MaxFlight + AlienHp * num_aliens iterations and is removed in
\* the next one at the latest.
C19_BoundedLifetime ==
    /\ TotalHits <= AlienHp * num_aliens
    /\ \A i \in 1..NumProjectiles :
          /\ HeldBack(game.projectiles[i]) \in 0..TotalHits
          /\ game.projectiles[i].age <= MaxFlight + AlienHp * num_aliens

\* A projectile that was held back by another one's hit and then flew on,
\* now in the last position before it leaves the buffer.
C19_HeldBackNearTop ==
    \E i \in 1..NumProjectiles :
        /\ IsFrame
        /\ HeldBack(game.projectiles[i]) > 0
        /\ game.projectiles[i].y + ProjectileDir >= buffer_height

\* C20: in every state every alien has 1 <= hp <= 3, a DEAD alien has
\* hp = 1 and x one less than the x it was created with (and its y), a
\* live alien is where it was created with its death countdown at 10, and
\* player.life is 3; and no step increases an alien's hp.
C20_AlienAndLifeInvariants ==
    [][ /\ game'.player.life = 3
        /\ \A ai \in 1..num_aliens :
              /\ game'.aliens[ai].hp \in 1..AlienHp
              /\ game'.aliens[ai].hp <= game.aliens[ai].hp
              /\ game'.aliens[ai].y = InitAlien(ai).y
              /\ IF Live(game'.aliens[ai])
                 THEN /\ game'.aliens[ai].x = InitAlien(ai).x
                      /\ death_counters'[ai] = DeathFrames
                 ELSE /\ game'.aliens[ai].hp = 1
                      /\ game'.aliens[ai].x = InitAlien(ai).x - 1 ]_vars

====
